---- MODULE Spec2Model ----
(***************************************************************************)
(* Model of server.js: the DataStore class (quests, markers, categories,   *)
(* debounced and periodic saves), the connection registry (connectedUsers, *)
(* adminSockets) and the socket.io message handlers.                       *)
(*                                                                         *)
(* Time is in milliseconds.  Handlers run to completion in zero time (one  *)
(* action each); time passes only in Tick, which never steps over a timer  *)
(* that is due.                                                            *)
(***************************************************************************)
EXTENDS Integers, Sequences, FiniteSets, TLC

VARIABLES
  quests,            \* dataStore.data.quests (most recent first)
  markers,           \* dataStore.data.markers
  customCategories,  \* dataStore.data.customCategories
  analytics,         \* dataStore.data.analytics
  autoSaveTimeout,   \* dataStore.autoSaveTimeout: NoHandle (null) or a timer handle
  timers,            \* pending setTimeout timers: set of [handle, due]
  nextHeartbeat,     \* next firing instant of the setInterval of the constructor
  file,              \* contents of data.json
  now,               \* Date.now()
  connectedUsers,    \* keys of the connectedUsers Map
  adminSockets,      \* the adminSockets Set, in insertion order
  socketSeq,         \* number of sockets socket.io has created so far
  running,           \* the node process is alive
  emitted,           \* what the last handler emitted: sequence of [to, event, data]
  lastOp,            \* the message the last handler processed, and its outcome
  lastMutation,      \* history: instant of the last scheduleSave call
  burstWrites,       \* history: debounced writes since the last scheduleSave call
  clients            \* what each connected client has received so far

vars == <<quests, markers, customCategories, analytics, autoSaveTimeout, timers,
          nextHeartbeat, file, now, connectedUsers, adminSockets, socketSeq,
          running, emitted, lastOp, lastMutation, burstWrites, clients>>

----------------------------------------------------------------------------
(* Bounds of the model *)

MaxQuests == 2          \* addQuest is not offered beyond this many stored quests
MaxMarkers == 1         \* addMarker is not offered beyond this many stored markers
MaxConnections == 2     \* connects per run
RandomSteps == 2        \* distinct values Math.random() contributes to an id
TickStep == 500         \* largest advance of the clock in one Tick
MaxMsgTime == 1         \* Spec: clients are active only before this instant
SaveMsgTime == 1001     \* SaveSpec: clients are active only before this instant
MaxTime == 10000        \* from this instant the clock advances to pending writes only

(* Program constants *)

SaveDelay == 1000           \* setTimeout(..., 1000) in scheduleSave
HeartbeatInterval == 10000  \* setInterval(..., 10000) in the constructor

NoId == -1        \* a payload without an id field / no id
NoTime == -1      \* an absent timestamp field (updatedAt before the first update)
NoHandle == 0     \* autoSaveTimeout = null
NoSocket == 0     \* no sender (timer callbacks)
Undefined == "undefined"
Null == "null"    \* the JSON value null

DefaultCategories == <<"design", "programming", "marketing", "writing", "other">>

----------------------------------------------------------------------------
(* Inputs *)

\* Payloads of addQuest / addMarker as JSON delivers them: an object, an object
\* that carries its own id and createdAt, a primitive, or null / no argument.
ObjectPayload == [kind |-> "object", id |-> NoId, createdAt |-> NoTime,
                  title |-> "Fix sign", user |-> "alice", status |-> "open"]
OwnIdPayload == [kind |-> "object", id |-> 7, createdAt |-> 3,
                 title |-> "Fix sign", user |-> "alice", status |-> "open"]
PrimitivePayload == [kind |-> "primitive", id |-> NoId, createdAt |-> NoTime,
                     title |-> Undefined, user |-> Undefined, status |-> Undefined]
NullPayload == [kind |-> "null", id |-> NoId, createdAt |-> NoTime,
                title |-> Undefined, user |-> Undefined, status |-> Undefined]
Payloads == {ObjectPayload, OwnIdPayload, PrimitivePayload, NullPayload}

\* a quest of another user, with a status that is neither open nor taken
DonePayload == [kind |-> "object", id |-> NoId, createdAt |-> NoTime,
                title |-> "Paint wall", user |-> "bob", status |-> "done"]

Statuses == {"taken"}
CategoryNames == {"design", ""}
Referers == {Undefined, "http://host/", "http://host/admin"}

\* The ids a client can name: every id the store can have assigned so far, and
\* one that the store never assigns.
UnknownId == NoId - 1
KnownIds == {q.id : q \in {quests[i] : i \in 1..Len(quests)}}
              \cup {m.id : m \in {markers[i] : i \in 1..Len(markers)}}
MessageIds == KnownIds \cup {UnknownId}

----------------------------------------------------------------------------
(* Helpers that JavaScript provides *)

Min(S) == CHOOSE x \in S : \A y \in S : x <= y

UnshiftAtEnd(seq, e) == Append(seq, e)

\* Array.prototype.unshift
Unshift(seq, e) == <<e>> \o seq

FindIndexOrLast(seq, id) ==
  IF \E i \in 1..Len(seq) : seq[i].id = id
    THEN Min({i \in 1..Len(seq) : seq[i].id = id})
    ELSE Len(seq)

\* Array.prototype.findIndex(x => x.id === id), 1-based; 0 where the code has -1
FindIndex(seq, id) ==
  IF \E i \in 1..Len(seq) : seq[i].id = id
    THEN Min({i \in 1..Len(seq) : seq[i].id = id})
    ELSE 0

\* Array.prototype.splice(index, 1): the array without the element at index
Splice(seq, index) ==
  [i \in 1..(Len(seq) - 1) |-> IF i < index THEN seq[i] ELSE seq[i + 1]]

\* Array.prototype.includes / indexOf on the category array
Includes(seq, name) == \E i \in 1..Len(seq) : seq[i] = name
IndexOf(seq, name) ==
  IF Includes(seq, name) THEN Min({i \in 1..Len(seq) : seq[i] = name}) ELSE 0

\* if (x) on what addCategory / deleteCategory return: the empty string and
\* undefined are falsy
Truthy(name) == name # "" /\ name # Undefined

\* new Date(t).toDateString(): the calendar day of an instant
DayMs == 86400000
DateString(t) == t \div DayMs

----------------------------------------------------------------------------
(* DataStore *)

\* Date.now() + Math.random(): the instant plus a fraction that, at the
\* magnitude of Date.now(), a double holds in finitely many steps.
NewId(t, r) == t * RandomSteps + r

\* quest.id = ...: the methods of a class run in strict mode, where assigning a
\* property to null, undefined or a primitive throws a TypeError.
AssignThrows(p) == p.kind # "object"

\* addQuest: the payload object itself, with id and createdAt (over)written
StoredQuest(p, id, t) ==
  [id |-> id, createdAt |-> t, updatedAt |-> NoTime,
   title |-> p.title, user |-> p.user, status |-> p.status]

\* addMarker: the payload object itself, with id and createdAt (over)written
StoredMarker(p, id, t) == [id |-> id, createdAt |-> t, title |-> p.title]

AssignStatusAndTitle(q, status, t) ==
  [q EXCEPT !.status = status, !.title = status, !.updatedAt = t]

\* updateQuest: Object.assign(quest, {status}); quest.updatedAt = now
AssignStatus(q, status, t) == [q EXCEPT !.status = status, !.updatedAt = t]

CategoriesAfterPush(cats, name) == Append(cats, name)

\* addCategory: push unless included
CategoriesAfterAdd(cats, name) ==
  IF ~Includes(cats, name) THEN Append(cats, name) ELSE cats

getStatsOpenIsNotTaken ==
  [totalQuests |-> Len(quests),
   totalMarkers |-> Len(markers),
   questsOpen |-> Cardinality({i \in 1..Len(quests) : quests[i].status # "taken"}),
   questsTaken |-> Cardinality({i \in 1..Len(quests) : quests[i].status = "taken"}),
   activeUsers |-> Cardinality({quests[i].user : i \in 1..Len(quests)}),
   markersToday |-> Cardinality({i \in 1..Len(markers) :
                                   DateString(markers[i].createdAt) = DateString(now)}),
   customCategories |-> Len(customCategories),
   lastUpdated |-> analytics.lastUpdated]

\* getStats
getStats ==
  [totalQuests |-> Len(quests),
   totalMarkers |-> Len(markers),
   questsOpen |-> Cardinality({i \in 1..Len(quests) : quests[i].status = "open"}),
   questsTaken |-> Cardinality({i \in 1..Len(quests) : quests[i].status = "taken"}),
   activeUsers |-> Cardinality({quests[i].user : i \in 1..Len(quests)}),
   markersToday |-> Cardinality({i \in 1..Len(markers) :
                                   DateString(markers[i].createdAt) = DateString(now)}),
   customCategories |-> Len(customCategories),
   lastUpdated |-> analytics.lastUpdated]

\* getAllData
getAllData ==
  [quests |-> quests, markers |-> markers, customCategories |-> customCategories]

\* clearTimeout(handle): a handle that is not pending is ignored
ClearTimeout(ts, handle) == {t \in ts : t.handle # handle}

\* The handle setTimeout returns: one that no pending timer has and that
\* autoSaveTimeout does not hold.
FreshHandle ==
  CHOOSE h \in 1..(Cardinality(timers) + 2) :
    h # autoSaveTimeout /\ \A t \in timers : t.handle # h

scheduleSaveNoClear ==
  /\ timers' = timers \cup {[handle |-> FreshHandle, due |-> now + SaveDelay]}
  /\ autoSaveTimeout' = FreshHandle
  /\ lastMutation' = now
  /\ burstWrites' = 0

\* scheduleSave
scheduleSave ==
  /\ timers' = (IF autoSaveTimeout # NoHandle
                  THEN ClearTimeout(timers, autoSaveTimeout)
                  ELSE timers)
               \cup {[handle |-> FreshHandle, due |-> now + SaveDelay]}
  /\ autoSaveTimeout' = FreshHandle
  /\ lastMutation' = now
  /\ burstWrites' = 0

\* an operation that returns without calling scheduleSave
noSave == UNCHANGED <<timers, autoSaveTimeout, lastMutation, burstWrites>>

\* JSON.stringify of the value of a property: a property whose value is
\* undefined is left out (reading it from the parsed object gives undefined);
\* strings and finite numbers are written so that JSON.parse gives them back
StringifyProperty(v) == v

\* JSON.stringify of an element of an array: undefined is written as null
StringifyElement(v) == IF v = Undefined THEN Null ELSE v

StringifyQuest(q) ==
  [id |-> StringifyProperty(q.id), createdAt |-> StringifyProperty(q.createdAt),
   updatedAt |-> StringifyProperty(q.updatedAt), title |-> StringifyProperty(q.title),
   user |-> StringifyProperty(q.user), status |-> StringifyProperty(q.status)]

StringifyMarker(m) ==
  [id |-> StringifyProperty(m.id), createdAt |-> StringifyProperty(m.createdAt),
   title |-> StringifyProperty(m.title)]

\* JSON.stringify(this.data, null, 2), as JSON.parse reads it back
Stringify(data) ==
  [exists |-> TRUE,
   quests |-> [i \in 1..Len(data.quests) |-> StringifyQuest(data.quests[i])],
   markers |-> [i \in 1..Len(data.markers) |-> StringifyMarker(data.markers[i])],
   customCategories |-> [i \in 1..Len(data.customCategories) |->
                           StringifyElement(data.customCategories[i])],
   analytics |-> data.analytics]

\* saveData: lastUpdated is set, then the whole of this.data is written; a
\* failing write (ok = FALSE) is caught and logged.
saveData(ok) ==
  /\ analytics' = [analytics EXCEPT !.lastUpdated = now]
  /\ file' = IF ok
               THEN Stringify([quests |-> quests, markers |-> markers,
                               customCategories |-> customCategories,
                               analytics |-> analytics'])
               ELSE file

\* this.data of the constructor, before loadData
DefaultData(t) ==
  [quests |-> <<>>, markers |-> <<>>, customCategories |-> DefaultCategories,
   analytics |-> [totalConnections |-> 0, lastUpdated |-> t]]

loadDataWithoutAnalytics(f, data) ==
  IF f.exists
    THEN [quests |-> f.quests, markers |-> f.markers,
          customCategories |-> f.customCategories, analytics |-> data.analytics]
    ELSE data

\* loadData: when data.json exists, its quests, markers, customCategories and
\* analytics replace the ones of the constructor (every file saveData writes
\* has all four, and a parsed array or object is truthy)
loadData(f, data) ==
  IF f.exists
    THEN [quests |-> f.quests, markers |-> f.markers,
          customCategories |-> f.customCategories, analytics |-> f.analytics]
    ELSE data

----------------------------------------------------------------------------
(* Emitting *)

\* io.emit(event, data): to every connected socket
Broadcast(event, data) == [to |-> connectedUsers, event |-> event, data |-> data]

\* socket.emit(event, data): to the socket of the handler
Reply(s, event, data) == [to |-> {s}, event |-> event, data |-> data]

NotifyEveryone(type, entity) ==
  << [to |-> connectedUsers, event |-> "adminNotification",
      data |-> [type |-> type, data |-> entity, timestamp |-> now]] >>

\* adminSockets.forEach(adminId => io.to(adminId).emit('adminNotification', ...)):
\* the room of a socket id holds that socket while it is connected
AdminNotifications(type, entity) ==
  [i \in 1..Len(adminSockets) |->
    [to |-> {adminSockets[i]} \cap connectedUsers,
     event |-> "adminNotification",
     data |-> [type |-> type, data |-> entity, timestamp |-> now]]]

Op(op, from, result, id, name, kind) ==
  [op |-> op, from |-> from, result |-> result, id |-> id, name |-> name, kind |-> kind]

\* a client message is handled: the process runs, the socket is connected
Receives(s) == running /\ s \in connectedUsers

----------------------------------------------------------------------------
(* Clients *)

NoCount == -1     \* no userCount received yet

\* a client whose connection has just been made
NewClient == [first |-> "", initialData |-> 0, userCount |-> NoCount]

\* The client takes one message: it notes the first event it gets, counts the
\* initialData messages and keeps the last userCount.
Receive(c, msg) ==
  LET seen == [c EXCEPT !.first = IF @ = "" THEN msg.event ELSE @]
  IN CASE msg.event = "initialData" -> [seen EXCEPT !.initialData = @ + 1]
       [] msg.event = "userCount" -> [seen EXCEPT !.userCount = msg.data]
       [] OTHER -> seen

\* The client of socket s takes, in the order they were sent, the messages
\* among msgs that were sent to it.
RECURSIVE ReceiveAll(_, _, _)
ReceiveAll(c, msgs, s) ==
  IF msgs = <<>> THEN c
  ELSE ReceiveAll(IF s \in Head(msgs).to THEN Receive(c, Head(msgs)) ELSE c,
                  Tail(msgs), s)

\* Every message the handler emitted is delivered, in order, before the next
\* handler runs; the client of a closed connection is gone.
Deliver ==
  clients' = IF emitted' = <<>> /\ connectedUsers' = connectedUsers
               THEN clients
               ELSE [s \in connectedUsers' |->
                      LET c == IF s \in DOMAIN clients THEN clients[s] ELSE NewClient
                      IN IF \A i \in 1..Len(emitted') : s \notin emitted'[i].to
                           THEN c
                           ELSE ReceiveAll(c, emitted', s)]

----------------------------------------------------------------------------
(* State after construction: no data.json yet *)

NoFile == [exists |-> FALSE, quests |-> <<>>, markers |-> <<>>,
           customCategories |-> <<>>,
           analytics |-> [totalConnections |-> 0, lastUpdated |-> 0]]

NoOp == Op("none", NoSocket, "none", NoId, "", "")

Init ==
  /\ quests = <<>>
  /\ markers = <<>>
  /\ customCategories = DefaultCategories
  /\ analytics = [totalConnections |-> 0, lastUpdated |-> 0]
  /\ autoSaveTimeout = NoHandle
  /\ timers = {}
  /\ nextHeartbeat = HeartbeatInterval
  /\ file = NoFile
  /\ now = 0
  /\ connectedUsers = {}
  /\ adminSockets = <<>>
  /\ socketSeq = 0
  /\ running = TRUE
  /\ emitted = <<>>
  /\ lastOp = NoOp
  /\ lastMutation = NoTime
  /\ burstWrites = 0
  /\ clients = <<>>

registry == <<connectedUsers, adminSockets, socketSeq>>
persisted == <<analytics, file, nextHeartbeat>>

----------------------------------------------------------------------------
(* Connection registry *)

\* referer?.includes('/admin') || ...?.includes('?admin=true') || ...?.includes('#admin')
IsAdmin(referer) ==
  IF referer = Undefined THEN Undefined
  ELSE IF referer \in {"http://host/admin", "http://host/?admin=true", "http://host/#admin"}
    THEN "true" ELSE "false"

InitialDataToAll(s, isAdmin) ==
  [to |-> connectedUsers \cup {s}, event |-> "initialData",
   data |-> [quests |-> getAllData.quests, markers |-> getAllData.markers,
             customCategories |-> getAllData.customCategories,
             isAdmin |-> isAdmin, connectionId |-> s]]

\* socket.emit('initialData', {...dataStore.getAllData(), isAdmin, connectionId})
InitialData(s, isAdmin) ==
  [to |-> {s}, event |-> "initialData",
   data |-> [quests |-> getAllData.quests, markers |-> getAllData.markers,
             customCategories |-> getAllData.customCategories,
             isAdmin |-> isAdmin, connectionId |-> s]]

UserCountOffByOne(users) ==
  [to |-> users, event |-> "userCount", data |-> Cardinality(users) + 1]

\* io.emit('userCount', connectedUsers.size)
UserCount(users) == [to |-> users, event |-> "userCount", data |-> Cardinality(users)]

WithoutSocketKept(admins, s) == admins

\* adminSockets.delete(socket.id)
WithoutSocket(admins, s) == SelectSeq(admins, LAMBDA a : a # s)

\* io.on('connection')
Connect(referer) ==
  LET s == socketSeq + 1
      isAdmin == IsAdmin(referer)
  IN /\ running
     /\ socketSeq < MaxConnections
     /\ socketSeq' = s
     /\ connectedUsers' = connectedUsers \cup {s}
     /\ analytics' = [analytics EXCEPT !.totalConnections = @ + 1]
     /\ adminSockets' = IF isAdmin = "true" THEN Append(adminSockets, s) ELSE adminSockets
     /\ emitted' = << InitialData(s, isAdmin), UserCount(connectedUsers') >>
     /\ lastOp' = Op("connect", s, "ok", NoId, referer, "")
     /\ noSave
     /\ UNCHANGED <<quests, markers, customCategories, file, nextHeartbeat, now, running>>
     /\ Deliver

\* socket.on('disconnect')
Disconnect(s) ==
  /\ running
  /\ s \in connectedUsers
  /\ connectedUsers' = connectedUsers \ {s}
  /\ adminSockets' = WithoutSocket(adminSockets, s)
  /\ emitted' = << UserCount(connectedUsers') >>
  /\ lastOp' = Op("disconnect", s, "ok", NoId, "", "")
  /\ noSave
  /\ UNCHANGED <<quests, markers, customCategories, persisted, now, socketSeq, running>>
  /\ Deliver

----------------------------------------------------------------------------
(* Quest handlers *)

\* socket.on('addQuest'): dataStore.addQuest, io.emit, admin notifications;
\* a throw is caught and answered with an error event
AddQuest(s, p, r) ==
  /\ Receives(s)
  /\ Len(quests) < MaxQuests
  /\ IF AssignThrows(p)
       THEN /\ emitted' = << Reply(s, "error", "Failed to add quest") >>
            /\ lastOp' = Op("addQuest", s, "error", p.id, "", p.kind)
            /\ noSave
            /\ UNCHANGED quests
       ELSE LET newQuest == StoredQuest(p, NewId(now, r), now)
            IN /\ quests' = Unshift(quests, newQuest)
               /\ scheduleSave
               /\ emitted' = << Broadcast("questAdded", newQuest) >>
                               \o AdminNotifications("quest_added", newQuest)
               /\ lastOp' = Op("addQuest", s, "ok", p.id, "", p.kind)
  /\ UNCHANGED <<markers, customCategories, persisted, now, registry, running>>
  /\ Deliver

\* The process ends on an exception that no handler catches: every socket is
\* closed and every timer is gone.
Crash(op, s) ==
  /\ running' = FALSE
  /\ connectedUsers' = {}
  /\ adminSockets' = <<>>
  /\ timers' = {}
  /\ emitted' = <<>>
  /\ lastOp' = Op(op, s, "uncaught", NoId, "", "null")
  /\ UNCHANGED <<quests, markers, customCategories, persisted, now, socketSeq,
                 autoSaveTimeout, lastMutation, burstWrites>>
  /\ Deliver

\* socket.on('updateQuest', ({ id, status }) => { try ... }): the parameter is
\* destructured before the try block is entered, so a null or absent payload
\* throws outside it
UpdateQuest(s, kind, id, status) ==
  /\ Receives(s)
  /\ IF kind = "null"
       THEN Crash("updateQuest", s)
       ELSE LET index == FindIndex(quests, id)
            IN /\ IF index # 0
                    THEN /\ quests' = [quests EXCEPT
                                         ![index] = AssignStatus(@, status, now)]
                         /\ scheduleSave
                         /\ emitted' = << Broadcast("questUpdated", quests'[index]) >>
                         /\ lastOp' = Op("updateQuest", s, "ok", id, status, kind)
                    ELSE /\ UNCHANGED quests
                         /\ noSave
                         /\ emitted' = <<>>
                         /\ lastOp' = Op("updateQuest", s, "notfound", id, status, kind)
               /\ UNCHANGED <<markers, customCategories, persisted, now, registry, running>>
               /\ Deliver

\* socket.on('deleteQuest')
DeleteQuest(s, id) ==
  LET index == FindIndex(quests, id)
  IN /\ Receives(s)
     /\ IF index # 0
          THEN /\ quests' = Splice(quests, index)
               /\ scheduleSave
               /\ emitted' = << Broadcast("questDeleted", id) >>
               /\ lastOp' = Op("deleteQuest", s, "ok", id, "", "")
          ELSE /\ UNCHANGED quests
               /\ noSave
               /\ emitted' = <<>>
               /\ lastOp' = Op("deleteQuest", s, "notfound", id, "", "")
     /\ UNCHANGED <<markers, customCategories, persisted, now, registry, running>>
     /\ Deliver

\* socket.on('clearAllQuests')
ClearAllQuests(s) ==
  /\ Receives(s)
  /\ quests' = <<>>
  /\ scheduleSave
  /\ emitted' = << Broadcast("allQuestsCleared", Undefined) >>
  /\ lastOp' = Op("clearAllQuests", s, "ok", NoId, "", "")
  /\ UNCHANGED <<markers, customCategories, persisted, now, registry, running>>
  /\ Deliver

----------------------------------------------------------------------------
(* Marker handlers *)

\* socket.on('addMarker'): as addQuest, but a throw is only logged
AddMarker(s, p, r) ==
  /\ Receives(s)
  /\ Len(markers) < MaxMarkers
  /\ IF AssignThrows(p)
       THEN /\ emitted' = <<>>
            /\ lastOp' = Op("addMarker", s, "error", p.id, "", p.kind)
            /\ noSave
            /\ UNCHANGED markers
       ELSE LET newMarker == StoredMarker(p, NewId(now, r), now)
            IN /\ markers' = Unshift(markers, newMarker)
               /\ scheduleSave
               /\ emitted' = << Broadcast("markerAdded", newMarker) >>
                               \o AdminNotifications("marker_added", newMarker)
               /\ lastOp' = Op("addMarker", s, "ok", p.id, "", p.kind)
  /\ UNCHANGED <<quests, customCategories, persisted, now, registry, running>>
  /\ Deliver

\* socket.on('deleteMarker')
DeleteMarker(s, id) ==
  LET index == FindIndex(markers, id)
  IN /\ Receives(s)
     /\ IF index # 0
          THEN /\ markers' = Splice(markers, index)
               /\ scheduleSave
               /\ emitted' = << Broadcast("markerDeleted", id) >>
               /\ lastOp' = Op("deleteMarker", s, "ok", id, "", "")
          ELSE /\ UNCHANGED markers
               /\ noSave
               /\ emitted' = <<>>
               /\ lastOp' = Op("deleteMarker", s, "notfound", id, "", "")
     /\ UNCHANGED <<quests, customCategories, persisted, now, registry, running>>
     /\ Deliver

\* socket.on('clearAllMarkers')
ClearAllMarkers(s) ==
  /\ Receives(s)
  /\ markers' = <<>>
  /\ scheduleSave
  /\ emitted' = << Broadcast("allMarkersCleared", Undefined) >>
  /\ lastOp' = Op("clearAllMarkers", s, "ok", NoId, "", "")
  /\ UNCHANGED <<quests, customCategories, persisted, now, registry, running>>
  /\ Deliver

----------------------------------------------------------------------------
(* Category handlers *)

\* socket.on('addCategory'): dataStore.addCategory returns the name or null;
\* the broadcast is under if (added)
AddCategory(s, name) ==
  /\ Receives(s)
  /\ customCategories' = CategoriesAfterAdd(customCategories, name)
  /\ IF ~Includes(customCategories, name)
       THEN /\ scheduleSave
            /\ emitted' = IF Truthy(name) THEN << Broadcast("categoryAdded", name) >>
                                          ELSE <<>>
            /\ lastOp' = Op("addCategory", s, "ok", NoId, name, "")
       ELSE /\ noSave
            /\ emitted' = <<>>
            /\ lastOp' = Op("addCategory", s, "exists", NoId, name, "")
  /\ UNCHANGED <<quests, markers, persisted, now, registry, running>>
  /\ Deliver

\* socket.on('deleteCategory'): dataStore.deleteCategory returns the removed
\* name or null; the broadcast is under if (deleted)
DeleteCategory(s, name) ==
  LET index == IndexOf(customCategories, name)
  IN /\ Receives(s)
     /\ IF index # 0
          THEN /\ customCategories' = Splice(customCategories, index)
               /\ scheduleSave
               /\ emitted' = IF Truthy(customCategories[index])
                               THEN << Broadcast("categoryDeleted", name) >>
                               ELSE <<>>
               /\ lastOp' = Op("deleteCategory", s, "ok", NoId, name, "")
          ELSE /\ UNCHANGED customCategories
               /\ noSave
               /\ emitted' = <<>>
               /\ lastOp' = Op("deleteCategory", s, "notfound", NoId, name, "")
     /\ UNCHANGED <<quests, markers, persisted, now, registry, running>>
     /\ Deliver

----------------------------------------------------------------------------
(* Replies to the sender *)

\* socket.on('getAdminStats')
GetAdminStats(s) ==
  /\ Receives(s)
  /\ emitted' = << Reply(s, "adminStats",
                         [stats |-> getStats,
                          connectedUsers |-> Cardinality(connectedUsers),
                          adminCount |-> Len(adminSockets)]) >>
  /\ lastOp' = Op("getAdminStats", s, "ok", NoId, "", "")
  /\ noSave
  /\ UNCHANGED <<quests, markers, customCategories, persisted, now, registry, running>>
  /\ Deliver

\* socket.on('ping')
Ping(s) ==
  /\ Receives(s)
  /\ emitted' = << Reply(s, "pong", [timestamp |-> now]) >>
  /\ lastOp' = Op("ping", s, "ok", NoId, "", "")
  /\ noSave
  /\ UNCHANGED <<quests, markers, customCategories, persisted, now, registry, running>>
  /\ Deliver

----------------------------------------------------------------------------
(* Timers and the clock *)

Deadlines == {t.due : t \in timers} \cup {nextHeartbeat}

\* Time passes, never beyond the next instant at which a timer is due; from
\* MaxTime on, only up to the debounced writes that are pending.
Tick(to) ==
  /\ running
  /\ now < MaxTime \/ timers # {}
  /\ \A d \in Deadlines : d > now
  /\ to > now
  /\ to <= Min(Deadlines)
  /\ now' = to
  /\ emitted' = <<>>
  /\ lastOp' = NoOp
  /\ noSave
  /\ UNCHANGED <<quests, markers, customCategories, persisted, registry, running>>
  /\ Deliver

\* The callback of the setTimeout of scheduleSave: () => this.saveData()
AutoSave(ok) ==
  /\ running
  /\ \E t \in timers :
       /\ t.due <= now
       /\ timers' = timers \ {t}
       /\ lastOp' = Op("autoSave", NoSocket, IF ok THEN "ok" ELSE "error", t.handle, "", "")
  /\ saveData(ok)
  /\ burstWrites' = burstWrites + 1
  /\ emitted' = <<>>
  /\ UNCHANGED <<quests, markers, customCategories, nextHeartbeat, now, registry,
                 running, autoSaveTimeout, lastMutation>>
  /\ Deliver

HeartbeatUnlessPending(ok) ==
  /\ running
  /\ timers = {}
  /\ nextHeartbeat <= now
  /\ nextHeartbeat' = nextHeartbeat + HeartbeatInterval
  /\ saveData(ok)
  /\ emitted' = <<>>
  /\ lastOp' = Op("heartbeat", NoSocket, IF ok THEN "ok" ELSE "error", NoId, "", "")
  /\ noSave
  /\ UNCHANGED <<quests, markers, customCategories, now, registry, running>>
  /\ Deliver

\* The callback of the setInterval of the constructor: () => this.saveData()
Heartbeat(ok) ==
  /\ running
  /\ nextHeartbeat <= now
  /\ nextHeartbeat' = nextHeartbeat + HeartbeatInterval
  /\ saveData(ok)
  /\ emitted' = <<>>
  /\ lastOp' = Op("heartbeat", NoSocket, IF ok THEN "ok" ELSE "error", NoId, "", "")
  /\ noSave
  /\ UNCHANGED <<quests, markers, customCategories, now, registry, running>>
  /\ Deliver

\* The process is started again: new DataStore() reads data.json, the
\* registry is empty, no timer of the previous process is left
Restart ==
  LET data == loadData(file, DefaultData(now))
  IN /\ quests' = data.quests
     /\ markers' = data.markers
     /\ customCategories' = data.customCategories
     /\ analytics' = data.analytics
     /\ autoSaveTimeout' = NoHandle
     /\ timers' = {}
     /\ nextHeartbeat' = now + HeartbeatInterval
     /\ connectedUsers' = {}
     /\ adminSockets' = <<>>
     /\ running' = TRUE
     /\ emitted' = <<>>
     /\ lastOp' = Op("restart", NoSocket, IF file.exists THEN "loaded" ELSE "nofile",
                     NoId, "", "")
     /\ lastMutation' = NoTime
     /\ burstWrites' = 0
     /\ UNCHANGED <<file, now, socketSeq>>
     /\ Deliver

----------------------------------------------------------------------------

\* The instants the clock can advance to: the next instant at which a timer is
\* due or, while clients are active, TickStep from now
TickTargets(activeUntil) ==
  {Min(Deadlines)} \cup (IF now < activeUntil THEN {now + TickStep} ELSE {})

\* The sockets that send messages: the connected ones, while clients are active
Senders(activeUntil) == IF now < activeUntil THEN connectedUsers ELSE {}

\* The referers of the connections made: none once clients are no longer active
Connecting(activeUntil) == IF now < activeUntil THEN Referers ELSE {}

\* The whole server; clients are active in the first instant only.
Next ==
  \/ \E referer \in Connecting(MaxMsgTime) : Connect(referer)
  \/ \E s \in Senders(MaxMsgTime) : Disconnect(s)
  \/ \E s \in Senders(MaxMsgTime), p \in Payloads, r \in 0..(RandomSteps - 1) :
       AddQuest(s, p, r)
  \/ \E s \in Senders(MaxMsgTime), id \in MessageIds, status \in Statuses :
       UpdateQuest(s, "object", id, status)
  \/ \E s \in Senders(MaxMsgTime) : UpdateQuest(s, "null", NoId, Undefined)
  \/ \E s \in Senders(MaxMsgTime), id \in MessageIds : DeleteQuest(s, id)
  \/ \E s \in Senders(MaxMsgTime) : ClearAllQuests(s)
  \/ \E s \in Senders(MaxMsgTime), p \in Payloads, r \in 0..(RandomSteps - 1) :
       AddMarker(s, p, r)
  \/ \E s \in Senders(MaxMsgTime), id \in MessageIds : DeleteMarker(s, id)
  \/ \E s \in Senders(MaxMsgTime) : ClearAllMarkers(s)
  \/ \E s \in Senders(MaxMsgTime), name \in CategoryNames : AddCategory(s, name)
  \/ \E s \in Senders(MaxMsgTime), name \in CategoryNames : DeleteCategory(s, name)
  \/ \E s \in Senders(MaxMsgTime) : GetAdminStats(s)
  \/ \E s \in Senders(MaxMsgTime) : Ping(s)
  \/ \E to \in TickTargets(MaxMsgTime) : Tick(to)
  \/ \E ok \in BOOLEAN : AutoSave(ok)
  \/ \E ok \in BOOLEAN : Heartbeat(ok)

Spec == Init /\ [][Next]_vars

\* One client that sends every mutating message, with at most one quest and
\* one marker stored, over several instants.
SaveNext ==
  \/ \E referer \in Connecting(SaveMsgTime) \cap {"http://host/"} :
       socketSeq = 0 /\ Connect(referer)
  \/ \E s \in Senders(SaveMsgTime) : Len(quests) = 0 /\ AddQuest(s, ObjectPayload, 0)
  \/ \E s \in Senders(SaveMsgTime), id \in MessageIds, status \in Statuses :
       UpdateQuest(s, "object", id, status)
  \/ \E s \in Senders(SaveMsgTime), id \in MessageIds : DeleteQuest(s, id)
  \/ \E s \in Senders(SaveMsgTime) : ClearAllQuests(s)
  \/ \E s \in Senders(SaveMsgTime) : Len(markers) = 0 /\ AddMarker(s, ObjectPayload, 0)
  \/ \E s \in Senders(SaveMsgTime), id \in MessageIds : DeleteMarker(s, id)
  \/ \E s \in Senders(SaveMsgTime) : ClearAllMarkers(s)
  \/ \E s \in Senders(SaveMsgTime) : AddCategory(s, "urgent")
  \/ \E s \in Senders(SaveMsgTime) : DeleteCategory(s, "urgent")
  \/ \E to \in TickTargets(SaveMsgTime) : Tick(to)
  \/ \E ok \in BOOLEAN : AutoSave(ok)
  \/ \E ok \in BOOLEAN : Heartbeat(ok)

SaveSpec == Init /\ [][SaveNext]_vars

\* Clients that connect, disconnect and add quests and markers.
AddNext ==
  \/ \E referer \in Connecting(MaxMsgTime) : Connect(referer)
  \/ \E s \in Senders(MaxMsgTime) : Disconnect(s)
  \/ \E s \in Senders(MaxMsgTime), p \in Payloads, r \in 0..(RandomSteps - 1) :
       AddQuest(s, p, r)
  \/ \E s \in Senders(MaxMsgTime), p \in Payloads, r \in 0..(RandomSteps - 1) :
       AddMarker(s, p, r)
  \/ \E to \in TickTargets(MaxMsgTime) : Tick(to)
  \/ \E ok \in BOOLEAN : AutoSave(ok)
  \/ \E ok \in BOOLEAN : Heartbeat(ok)

AddSpec == Init /\ [][AddNext]_vars

\* Clients that connect, disconnect and add and delete categories.
CategoryNext ==
  \/ \E referer \in Connecting(SaveMsgTime) : Connect(referer)
  \/ \E s \in Senders(SaveMsgTime) : Disconnect(s)
  \/ \E s \in Senders(SaveMsgTime), name \in CategoryNames : AddCategory(s, name)
  \/ \E s \in Senders(SaveMsgTime), name \in CategoryNames : DeleteCategory(s, name)
  \/ \E to \in TickTargets(SaveMsgTime) : Tick(to)
  \/ \E ok \in BOOLEAN : AutoSave(ok)
  \/ \E ok \in BOOLEAN : Heartbeat(ok)

CategorySpec == Init /\ [][CategoryNext]_vars

\* Clients that connect and send the quest messages, with markers stored.
QuestNext ==
  \/ \E referer \in Connecting(MaxMsgTime) \cap {"http://host/"} : Connect(referer)
  \/ \E s \in Senders(MaxMsgTime), p \in Payloads, r \in 0..(RandomSteps - 1) :
       AddQuest(s, p, r)
  \/ \E s \in Senders(MaxMsgTime) : AddMarker(s, ObjectPayload, 0)
  \/ \E s \in Senders(MaxMsgTime), id \in MessageIds, status \in Statuses :
       UpdateQuest(s, "object", id, status)
  \/ \E s \in Senders(MaxMsgTime), id \in MessageIds : DeleteQuest(s, id)
  \/ \E s \in Senders(MaxMsgTime) : ClearAllQuests(s)
  \/ \E to \in TickTargets(MaxMsgTime) : Tick(to)
  \/ \E ok \in BOOLEAN : AutoSave(ok)
  \/ \E ok \in BOOLEAN : Heartbeat(ok)

QuestSpec == Init /\ [][QuestNext]_vars

\* One client that adds quests and markers and updates and deletes by id
\* and by name.
LookupNext ==
  \/ \E referer \in Connecting(MaxMsgTime) \cap {"http://host/"} :
       socketSeq = 0 /\ Connect(referer)
  \/ \E s \in Senders(MaxMsgTime), r \in 0..(RandomSteps - 1) :
       AddQuest(s, ObjectPayload, r)
  \/ \E s \in Senders(MaxMsgTime), r \in 0..(RandomSteps - 1) :
       AddMarker(s, ObjectPayload, r)
  \/ \E s \in Senders(MaxMsgTime), id \in MessageIds, status \in Statuses :
       UpdateQuest(s, "object", id, status)
  \/ \E s \in Senders(MaxMsgTime), id \in MessageIds : DeleteQuest(s, id)
  \/ \E s \in Senders(MaxMsgTime), id \in MessageIds : DeleteMarker(s, id)
  \/ \E s \in Senders(MaxMsgTime), name \in CategoryNames : DeleteCategory(s, name)
  \/ \E to \in TickTargets(MaxMsgTime) : Tick(to)
  \/ \E ok \in BOOLEAN : AutoSave(ok)
  \/ \E ok \in BOOLEAN : Heartbeat(ok)

LookupSpec == Init /\ [][LookupNext]_vars

\* Category names as a client can send them: a string or no argument
SentCategoryNames == {"urgent", Undefined}

\* Clients that connect and change the store, writes that succeed or fail, and
\* restarts of the process.
RestartNext ==
  \/ \E referer \in Connecting(SaveMsgTime) \cap {"http://host/"} : Connect(referer)
  \/ \E s \in Senders(SaveMsgTime) : Disconnect(s)
  \/ \E s \in Senders(SaveMsgTime) : Len(quests) = 0 /\ AddQuest(s, ObjectPayload, 0)
  \/ \E s \in Senders(SaveMsgTime), id \in MessageIds, status \in Statuses :
       UpdateQuest(s, "object", id, status)
  \/ \E s \in Senders(SaveMsgTime) : Len(markers) = 0 /\ AddMarker(s, ObjectPayload, 0)
  \/ \E s \in Senders(SaveMsgTime), name \in SentCategoryNames : AddCategory(s, name)
  \/ \E s \in Senders(SaveMsgTime), name \in SentCategoryNames : DeleteCategory(s, name)
  \/ \E to \in TickTargets(SaveMsgTime) : Tick(to)
  \/ \E ok \in BOOLEAN : AutoSave(ok)
  \/ \E ok \in BOOLEAN : Heartbeat(ok)
  \/ now < SaveMsgTime /\ Restart

RestartSpec == Init /\ [][RestartNext]_vars

\* One client that adds quests of two users, updates and deletes them, adds a
\* marker and a category and asks for the statistics.
StatsNext ==
  \/ \E referer \in Connecting(MaxMsgTime) \cap {"http://host/admin"} :
       socketSeq = 0 /\ Connect(referer)
  \/ \E s \in Senders(MaxMsgTime), p \in {ObjectPayload, DonePayload},
          r \in 0..(RandomSteps - 1) : AddQuest(s, p, r)
  \/ \E s \in Senders(MaxMsgTime), id \in MessageIds, status \in Statuses :
       UpdateQuest(s, "object", id, status)
  \/ \E s \in Senders(MaxMsgTime), id \in MessageIds : DeleteQuest(s, id)
  \/ \E s \in Senders(MaxMsgTime) : AddMarker(s, ObjectPayload, 0)
  \/ \E s \in Senders(MaxMsgTime) : AddCategory(s, "urgent")
  \/ \E s \in Senders(MaxMsgTime) : GetAdminStats(s)
  \/ \E to \in TickTargets(MaxMsgTime) : Tick(to)
  \/ \E ok \in BOOLEAN : AutoSave(ok)
  \/ \E ok \in BOOLEAN : Heartbeat(ok)

StatsSpec == Init /\ [][StatsNext]_vars

\* Clients that connect and disconnect, and send messages of every kind
\* between: ones that add, one that changes, one that ends the process, one
\* that removes, and the two that are only answered.
RegistryNext ==
  \/ \E referer \in Connecting(MaxMsgTime) : Connect(referer)
  \/ \E s \in Senders(MaxMsgTime) : Disconnect(s)
  \/ \E s \in Senders(MaxMsgTime) : Len(quests) = 0 /\ AddQuest(s, ObjectPayload, 0)
  \/ \E s \in Senders(MaxMsgTime) : Len(markers) = 0 /\ AddMarker(s, ObjectPayload, 0)
  \/ \E s \in Senders(MaxMsgTime), id \in MessageIds, status \in Statuses :
       UpdateQuest(s, "object", id, status)
  \/ \E s \in Senders(MaxMsgTime) : UpdateQuest(s, "null", NoId, Undefined)
  \/ \E s \in Senders(MaxMsgTime) : ClearAllMarkers(s)
  \/ \E s \in Senders(MaxMsgTime) : GetAdminStats(s)
  \/ \E s \in Senders(MaxMsgTime) : Ping(s)
  \/ \E to \in TickTargets(MaxMsgTime) : Tick(to)
  \/ \E ok \in BOOLEAN : AutoSave(ok)
  \/ \E ok \in BOOLEAN : Heartbeat(ok)

RegistrySpec == Init /\ [][RegistryNext]_vars

\* Clients that connect, disconnect and edit a category, writes that succeed
\* or fail, and restarts of the process.
CountNext ==
  \/ \E referer \in Connecting(SaveMsgTime) \cap {"http://host/"} : Connect(referer)
  \/ \E s \in Senders(SaveMsgTime) : Disconnect(s)
  \/ \E s \in Senders(SaveMsgTime) : AddCategory(s, "urgent")
  \/ \E s \in Senders(SaveMsgTime) : DeleteCategory(s, "urgent")
  \/ \E to \in TickTargets(SaveMsgTime) : Tick(to)
  \/ \E ok \in BOOLEAN : AutoSave(ok)
  \/ \E ok \in BOOLEAN : Heartbeat(ok)
  \/ now < SaveMsgTime /\ Restart

CountSpec == Init /\ [][CountNext]_vars

\* The instants at which the client of LiveSpec sends: every TickStep
OnTheStep == now % TickStep = 0

\* The instants the clock of LiveSpec can advance to: the next instant at
\* which a timer is due or, before that, the next one at which the client sends
StepTargets ==
  {Min(Deadlines)} \cup (IF now < MaxTime THEN {(now \div TickStep + 1) * TickStep} ELSE {})

\* One client that adds a quest and keeps adding and deleting a category,
\* every TickStep or less often, up to the heartbeat and beyond; every write
\* succeeds.
LiveNext ==
  \/ \E referer \in Connecting(MaxTime) \cap {"http://host/"} :
       socketSeq = 0 /\ Connect(referer)
  \/ \E s \in Senders(MaxTime) :
       OnTheStep /\ Len(quests) = 0 /\ AddQuest(s, ObjectPayload, 0)
  \/ \E s \in Senders(MaxTime) : OnTheStep /\ AddCategory(s, "urgent")
  \/ \E s \in Senders(MaxTime) : OnTheStep /\ DeleteCategory(s, "urgent")
  \/ \E to \in StepTargets : Tick(to)
  \/ AutoSave(TRUE)
  \/ Heartbeat(TRUE)

\* Time passes and the callbacks of timers that are due are called.
LiveSpec ==
  /\ Init
  /\ [][LiveNext]_vars
  /\ WF_vars(\E to \in StepTargets : Tick(to))
  /\ WF_vars(AutoSave(TRUE))
  /\ WF_vars(Heartbeat(TRUE))

----------------------------------------------------------------------------
(* Properties *)

Sockets == 1..MaxConnections
Admins == {adminSockets[i] : i \in 1..Len(adminSockets)}

\* the emissions of the last handler that socket s receives under an event name
Received(s, event) ==
  {i \in 1..Len(emitted) : emitted[i].event = event /\ s \in emitted[i].to}

\* the ids the store can assign at instant t
StoreIds(t) == {NewId(t, r) : r \in 0..(RandomSteps - 1)}

\* C1: after an addQuest (addMarker) message that is processed successfully,
\* every connected socket, the sender included, has received exactly one
\* questAdded (markerAdded) carrying the stored entity, whose id and createdAt
\* are set, and an adminNotification of type quest_added (marker_added) has
\* gone to each socket of the admin set and to no other socket.
C1_AddFanOut ==
  (lastOp.result = "ok" /\ lastOp.op \in {"addQuest", "addMarker"}) =>
    LET isQuest == lastOp.op = "addQuest"
        entity == IF isQuest THEN quests[1] ELSE markers[1]
        added == IF isQuest THEN "questAdded" ELSE "markerAdded"
        type == IF isQuest THEN "quest_added" ELSE "marker_added"
    IN /\ entity.id # NoId
       /\ entity.createdAt = now
       /\ lastOp.from \in connectedUsers
       /\ \A s \in Sockets :
            /\ Cardinality(Received(s, added)) = IF s \in connectedUsers THEN 1 ELSE 0
            /\ \A i \in Received(s, added) : emitted[i].data = entity
            /\ Cardinality(Received(s, "adminNotification")) = IF s \in Admins THEN 1 ELSE 0
            /\ \A i \in Received(s, "adminNotification") :
                 emitted[i].data.type = type /\ emitted[i].data.data = entity

\* an addQuest from a socket that is not an admin, with one admin and one
\* other socket connected
C1_Witness ==
  /\ lastOp.op = "addQuest"
  /\ lastOp.result = "ok"
  /\ Cardinality(connectedUsers) = 2
  /\ Cardinality(Admins) = 1
  /\ lastOp.from \notin Admins

\* C2: after any sequence of addQuest calls on an initially empty store, every
\* stored quest has an id of its own and the quests are in reverse order of
\* creation, the quest added last being first.
C2_UniqueIdsNewestFirst ==
  /\ \A i, j \in 1..Len(quests) : i # j => quests[i].id # quests[j].id
  /\ \A i, j \in 1..Len(quests) : i < j => quests[i].createdAt >= quests[j].createdAt
  /\ (lastOp.op = "addQuest" /\ lastOp.result = "ok") =>
       (Len(quests) >= 1 /\ emitted[1].data = quests[1])

\* C3 as stated: whatever the payload of an addQuest is (a record, a record
\* with its own id, a primitive, null), an entry with a store-assigned id and
\* createdAt is at the head of the quests and a save is scheduled.
C3_AnyPayloadIsStored ==
  lastOp.op = "addQuest" =>
    /\ lastOp.result = "ok"
    /\ Len(quests) >= 1
    /\ quests[1].id \in StoreIds(now)
    /\ quests[1].createdAt = now
    /\ \E t \in timers : t.handle = autoSaveTimeout /\ t.due = now + SaveDelay

\* C3 amended: an addQuest whose payload is a record (with or without its own
\* id and createdAt) puts one entry at the head of the quests, before the ones
\* that were there, with a store-assigned id and createdAt, broadcasts that
\* entry and schedules a save; an addQuest whose payload is a primitive or
\* null stores nothing, schedules no save and sends the error event to the
\* sender alone.
C3_RecordPayloadIsStored ==
  [][lastOp'.op = "addQuest" =>
       IF lastOp'.kind = "object"
         THEN /\ lastOp'.result = "ok"
              /\ Len(quests') = Len(quests) + 1
              /\ Tail(quests') = quests
              /\ Head(quests').id \in StoreIds(now)
              /\ Head(quests').createdAt = now
              /\ Head(quests').updatedAt = NoTime
              /\ emitted'[1] = Broadcast("questAdded", Head(quests'))
              /\ \E t \in timers' : t.handle = autoSaveTimeout' /\ t.due = now + SaveDelay
         ELSE /\ lastOp'.result = "error"
              /\ quests' = quests
              /\ timers' = timers
              /\ autoSaveTimeout' = autoSaveTimeout
              /\ emitted' = << Reply(lastOp'.from, "error", "Failed to add quest") >>
    ]_vars

\* a record that carries its own id has been stored ahead of an older quest,
\* under an id the store assigned
C3_Witness ==
  /\ lastOp.op = "addQuest"
  /\ lastOp.result = "ok"
  /\ lastOp.id = OwnIdPayload.id
  /\ Len(quests) = 2
  /\ quests[1].id # OwnIdPayload.id
  /\ quests[1].createdAt # OwnIdPayload.createdAt

\* C4: an updateQuest message {id, status} whose id is the id of a stored
\* quest changes the status of one quest with that id and sets its updatedAt;
\* that quest's id, title, user and createdAt, its place in the sequence, every
\* other quest, the markers and the categories stay as they were, and the one
\* emission is a questUpdated broadcast of the updated quest.
C4_UpdateChangesStatusOnly ==
  [][(/\ lastOp'.op = "updateQuest"
      /\ lastOp'.kind = "object"
      /\ \E i \in 1..Len(quests) : quests[i].id = lastOp'.id) =>
       \E i \in 1..Len(quests) :
         /\ quests[i].id = lastOp'.id
         /\ Len(quests') = Len(quests)
         /\ \A j \in 1..Len(quests) : j # i => quests'[j] = quests[j]
         /\ quests'[i].id = quests[i].id
         /\ quests'[i].title = quests[i].title
         /\ quests'[i].user = quests[i].user
         /\ quests'[i].createdAt = quests[i].createdAt
         /\ quests'[i].status = lastOp'.name
         /\ quests'[i].updatedAt = now
         /\ markers' = markers
         /\ customCategories' = customCategories
         /\ emitted' = << Broadcast("questUpdated", quests'[i]) >>
    ]_vars

\* one of two stored quests has been updated to taken, with a marker stored
C4_Witness ==
  /\ lastOp.op = "updateQuest"
  /\ lastOp.result = "ok"
  /\ Len(quests) = 2
  /\ Len(markers) = 1
  /\ \E i, j \in 1..2 :
       /\ quests[i].status = "taken" /\ quests[i].updatedAt = now
       /\ quests[j].status = "open" /\ quests[j].updatedAt = NoTime

\* C5: once deleteQuest(id) (deleteMarker(id)) has removed an entry, no entry
\* with that id is stored, so that a second call with the same id finds
\* nothing.
C5_DeletedIdIsGone ==
  /\ (lastOp.op = "deleteQuest" /\ lastOp.result = "ok") =>
       \A i \in 1..Len(quests) : quests[i].id # lastOp.id
  /\ (lastOp.op = "deleteMarker" /\ lastOp.result = "ok") =>
       \A i \in 1..Len(markers) : markers[i].id # lastOp.id

\* C6: an updateQuest, deleteQuest, deleteMarker or deleteCategory message
\* that names an id or a category that is not stored changes no collection,
\* schedules no save and leaves a pending save timer as it is, emits nothing
\* and leaves the process and its connections as they are.
C6_UnknownIsNoOp ==
  [][(\/ /\ lastOp'.op \in {"updateQuest", "deleteQuest"}
         /\ lastOp'.kind # "null"
         /\ \A i \in 1..Len(quests) : quests[i].id # lastOp'.id
      \/ /\ lastOp'.op = "deleteMarker"
         /\ \A i \in 1..Len(markers) : markers[i].id # lastOp'.id
      \/ /\ lastOp'.op = "deleteCategory"
         /\ \A i \in 1..Len(customCategories) : customCategories[i] # lastOp'.name) =>
       /\ UNCHANGED <<quests, markers, customCategories>>
       /\ UNCHANGED <<timers, autoSaveTimeout, lastMutation>>
       /\ UNCHANGED <<running, connectedUsers, adminSockets>>
       /\ emitted' = <<>>
       /\ running'
       /\ lastOp'.result = "notfound"
    ]_vars

\* an updateQuest for an id that is not stored, with a quest stored and a
\* save pending
C6_Witness ==
  /\ lastOp.op = "updateQuest"
  /\ lastOp.result = "notfound"
  /\ Len(quests) >= 1
  /\ \E t \in timers : t.handle = autoSaveTimeout

\* C7: no name is twice among the categories, and an addCategory of a name
\* that is among them leaves them as they are, schedules no save, emits
\* nothing and reports that the name exists.
C7_NoDuplicateCategory ==
  /\ [](\A i, j \in 1..Len(customCategories) :
          i # j => customCategories[i] # customCategories[j])
  /\ [][(/\ lastOp'.op = "addCategory"
         /\ \E i \in 1..Len(customCategories) : customCategories[i] = lastOp'.name) =>
          /\ customCategories' = customCategories
          /\ UNCHANGED <<timers, autoSaveTimeout, lastMutation>>
          /\ emitted' = <<>>
          /\ lastOp'.result = "exists"
       ]_vars

\* addCategory("design") with the five defaults stored
C7_Witness ==
  /\ lastOp.op = "addCategory"
  /\ lastOp.name = "design"
  /\ lastOp.result = "exists"
  /\ customCategories = DefaultCategories

\* C8: an addCategory / deleteCategory message is followed by the
\* categoryAdded / categoryDeleted broadcast to every connected socket if and
\* only if it changed the categories, whatever the name, the empty string
\* included.
C8_BroadcastIffChanged ==
  [][lastOp'.op \in {"addCategory", "deleteCategory"} =>
       ((customCategories' # customCategories) <=>
          (emitted' = << Broadcast(IF lastOp'.op = "addCategory"
                                     THEN "categoryAdded" ELSE "categoryDeleted",
                                   lastOp'.name) >>))
    ]_vars

\* C9: whatever message fails, the failure is caught in its handler: the
\* process keeps running, and the sender gets an error event exactly when
\* the failing message is an addQuest.
C9_FailuresAreCaught ==
  /\ running
  /\ lastOp.result # "uncaught"
  /\ lastOp.result = "error" =>
       IF lastOp.op = "addQuest"
         THEN emitted = << Reply(lastOp.from, "error", "Failed to add quest") >>
         ELSE emitted = <<>>

MutatingOps == {"addQuest", "updateQuest", "deleteQuest", "clearAllQuests", "addMarker",
                "deleteMarker", "clearAllMarkers", "addCategory", "deleteCategory"}

\* C10: at most one debounced write is pending; after each mutating operation
\* the pending one is the one scheduled by it, due SaveDelay later; a
\* debounced write happens SaveDelay after the last mutation, and exactly one
\* has happened since the last mutation once none is pending.
C10_DebouncedSave ==
  /\ Cardinality(timers) <= 1
  /\ \A t \in timers :
       t.handle = autoSaveTimeout /\ t.due = lastMutation + SaveDelay /\ now <= t.due
  /\ (lastOp.op \in MutatingOps /\ lastOp.result = "ok") =>
       (\E t \in timers : t.due = now + SaveDelay)
  /\ burstWrites = IF timers = {} /\ lastMutation # NoTime THEN 1 ELSE 0
  /\ lastOp.op = "autoSave" => now = lastMutation + SaveDelay

\* the write of a burst whose last mutation came TickStep after an earlier one
C10_Witness ==
  /\ lastOp.op = "autoSave"
  /\ lastOp.id = 2
  /\ lastMutation = TickStep
  /\ now = TickStep + SaveDelay
  /\ burstWrites = 1

\* the snapshot a freshly constructed store has after it has loaded the file
\* saveData writes in this state
ReloadedSnapshot ==
  LET written == Stringify([quests |-> quests, markers |-> markers,
                            customCategories |-> customCategories,
                            analytics |-> [analytics EXCEPT !.lastUpdated = now]])
      data == loadData(written, DefaultData(now))
  IN [quests |-> data.quests, markers |-> data.markers,
      customCategories |-> data.customCategories]

\* C11: in every reachable state, the store that a fresh DataStore loads from
\* the file saveData writes has the same quests, markers and categories, in
\* the same order, as getAllData() of the store that was written.
C11_RoundTrip == ReloadedSnapshot = getAllData

\* the number of entries of a sequence of quests that have a status
RECURSIVE CountStatus(_, _)
CountStatus(seq, status) ==
  IF seq = <<>> THEN 0
  ELSE (IF Head(seq).status = status THEN 1 ELSE 0) + CountStatus(Tail(seq), status)

\* the users of a sequence of quests
RECURSIVE UsersOf(_)
UsersOf(seq) == IF seq = <<>> THEN {} ELSE {Head(seq).user} \cup UsersOf(Tail(seq))

\* what the statistics of collections qs, ms, cs are to be
StatsAgree(stats, qs, ms, cs) ==
  /\ stats.totalQuests = Len(qs)
  /\ stats.totalMarkers = Len(ms)
  /\ stats.questsOpen = CountStatus(qs, "open")
  /\ stats.questsTaken = CountStatus(qs, "taken")
  /\ stats.questsOpen + stats.questsTaken <= stats.totalQuests
  /\ stats.activeUsers = Cardinality(UsersOf(qs))
  /\ stats.customCategories = Len(cs)

\* C12: in every reachable state getStats() reports the number of quests, of
\* markers, of quests whose status is exactly open, of quests whose status is
\* exactly taken (together no more than the quests), of distinct users among
\* the quests and of categories; a getAdminStats message is answered with
\* these numbers and changes nothing of the store, its timers, the file or
\* the registry.
C12_StatsAgree ==
  /\ [](StatsAgree(getStats, quests, markers, customCategories))
  /\ [][lastOp'.op = "getAdminStats" =>
          /\ UNCHANGED <<quests, markers, customCategories, analytics, file>>
          /\ UNCHANGED <<timers, autoSaveTimeout, nextHeartbeat>>
          /\ UNCHANGED <<connectedUsers, adminSockets, running>>
          /\ Len(emitted') = 1
          /\ emitted'[1].event = "adminStats"
          /\ emitted'[1].to = {lastOp'.from}
          /\ StatsAgree(emitted'[1].data.stats, quests, markers, customCategories)
       ]_vars

\* statistics asked for with a taken quest of one user, a quest of another
\* user that is neither open nor taken, a marker and a sixth category stored
C12_Witness ==
  /\ lastOp.op = "getAdminStats"
  /\ Len(quests) = 2
  /\ CountStatus(quests, "taken") = 1
  /\ CountStatus(quests, "done") = 1
  /\ Cardinality(UsersOf(quests)) = 2
  /\ Len(markers) = 1
  /\ Len(customCategories) = 6

\* C13: after a connect or a disconnect every socket that is connected then,
\* and no other, has been sent one userCount, whose value is the number of
\* sockets in the registry then; and in every state the last userCount each
\* connected client has received is the number of sockets in the registry.
C13_UserCount ==
  /\ DOMAIN clients = connectedUsers
  /\ \A s \in connectedUsers : clients[s].userCount = Cardinality(connectedUsers)
  /\ lastOp.op \in {"connect", "disconnect"} =>
       \A s \in Sockets :
         /\ Cardinality(Received(s, "userCount")) = IF s \in connectedUsers THEN 1 ELSE 0
         /\ \A i \in Received(s, "userCount") :
              emitted[i].data = Cardinality(connectedUsers)

\* one of two connected sockets has disconnected, and the other has been
\* told that one is connected
C13_Witness ==
  /\ lastOp.op = "disconnect"
  /\ socketSeq = 2
  /\ Cardinality(connectedUsers) = 1
  /\ \A s \in connectedUsers : clients[s].userCount = 1 /\ Received(s, "userCount") # {}

\* C14: every connected client has received initialData once, as the first
\* message sent to it; a connect sends it to the new socket alone, ahead of
\* the userCount of that connect, with the quests, markers and categories of
\* the store, the id of the socket and an isAdmin that is true exactly when
\* the socket was put in the admin set; no other handler sends initialData.
C14_InitialDataOnceFirst ==
  /\ \A s \in connectedUsers :
       clients[s].initialData = 1 /\ clients[s].first = "initialData"
  /\ lastOp.op = "connect" =>
       /\ Len(emitted) = 2
       /\ emitted[1].event = "initialData"
       /\ emitted[1].to = {lastOp.from}
       /\ emitted[1].data.quests = quests
       /\ emitted[1].data.markers = markers
       /\ emitted[1].data.customCategories = customCategories
       /\ emitted[1].data.connectionId = lastOp.from
       /\ (emitted[1].data.isAdmin = "true") <=> (lastOp.from \in Admins)
       /\ emitted[2].event = "userCount"
       /\ lastOp.from \in emitted[2].to
  /\ lastOp.op # "connect" =>
       \A i \in 1..Len(emitted) : emitted[i].event # "initialData"

\* an admin connects second, with a quest and a marker stored
C14_Witness ==
  /\ lastOp.op = "connect"
  /\ lastOp.from = 2
  /\ lastOp.from \in Admins
  /\ Cardinality(connectedUsers) = 2
  /\ Len(quests) >= 1
  /\ Len(markers) = 1

\* C19: the admin set is within the registry and holds no socket twice; a
\* connect adds the new socket, and no other, to the registry, and to the
\* admin set exactly when its referer names the admin page; a disconnect
\* removes its socket, and no other, from both; every other handler and
\* every timer leaves the registry and the admin set as they are, unless the
\* process ends or starts, which closes every connection.
C19_RegistryInvariant ==
  /\ [](/\ Admins \subseteq connectedUsers
        /\ connectedUsers \subseteq 1..socketSeq
        /\ \A i, j \in 1..Len(adminSockets) : i # j => adminSockets[i] # adminSockets[j])
  /\ [][CASE lastOp'.op = "connect" ->
              /\ lastOp'.from \notin 1..socketSeq
              /\ connectedUsers' = connectedUsers \cup {lastOp'.from}
              /\ Admins' = Admins \cup (IF lastOp'.name = "http://host/admin"
                                          THEN {lastOp'.from} ELSE {})
           [] lastOp'.op = "disconnect" ->
              /\ lastOp'.from \in connectedUsers
              /\ connectedUsers' = connectedUsers \ {lastOp'.from}
              /\ Admins' = Admins \ {lastOp'.from}
           [] lastOp'.result = "uncaught" \/ lastOp'.op = "restart" ->
              /\ connectedUsers' = {}
              /\ adminSockets' = <<>>
           [] OTHER ->
              /\ connectedUsers' = connectedUsers
              /\ adminSockets' = adminSockets
       ]_vars

\* an admin has disconnected after it and another socket have sent messages,
\* and the other socket is still connected
C19_Witness ==
  /\ lastOp.op = "disconnect"
  /\ socketSeq = 2
  /\ Cardinality(connectedUsers) = 1
  /\ Admins = {}
  /\ lastOp.from \notin connectedUsers
  /\ Len(quests) = 1
  /\ Len(markers) = 1
  /\ \E s \in connectedUsers : clients[s].userCount = 1 /\ clients[s].first = "initialData"
  /\ analytics.totalConnections = 2

\* the identity of each quest of a sequence: its id and createdAt
Identities(seq) == [i \in 1..Len(seq) |-> <<seq[i].id, seq[i].createdAt>>]

\* C15 (second part): no handler changes the id or the createdAt of a stored
\* quest: the identities after a step are the ones before it, with the one
\* of a new quest in front after an addQuest, or without the one of a
\* removed quest after a deleteQuest or a clearAllQuests.
IdentitiesKept ==
  \/ Identities(quests') = Identities(quests)
  \/ /\ lastOp'.op = "addQuest"
     /\ Len(quests') = Len(quests) + 1
     /\ Tail(Identities(quests')) = Identities(quests)
  \/ /\ lastOp'.op = "deleteQuest"
     /\ \E k \in 1..Len(quests) : Identities(quests') = Splice(Identities(quests), k)
  \/ /\ lastOp'.op = "clearAllQuests"
     /\ quests' = <<>>

\* C15: in every state reachable through addQuest, updateQuest, deleteQuest
\* and clearAllQuests messages of any clients, no two stored quests have the
\* same id, and the id and createdAt of a quest stay as they were set at its
\* creation for as long as it is stored.
C15_IdentityInvariant ==
  /\ [](\A i, j \in 1..Len(quests) : i # j => quests[i].id # quests[j].id)
  /\ [][IdentitiesKept]_vars

\* C17: once a file has been written, lastUpdated (which getStats reports as
\* lastUpdated) is the timestamp that the last successful write put in the
\* file: a failed write leaves it as it was.
C17_LastUpdatedIsLastWrite ==
  file.exists =>
    /\ analytics.lastUpdated = file.analytics.lastUpdated
    /\ getStats.lastUpdated = file.analytics.lastUpdated

\* C18 as stated: totalConnections is 0 after every restart, whatever the
\* file holds, grows by one with each connect and is changed by nothing else.
C18_CountSinceRestart ==
  [][CASE lastOp'.op = "restart" -> analytics'.totalConnections = 0
       [] lastOp'.op = "connect" ->
            analytics'.totalConnections = analytics.totalConnections + 1
       [] OTHER -> analytics'.totalConnections = analytics.totalConnections
    ]_vars

\* C18 amended: after a restart totalConnections is the value that the last
\* successful write put in the file, and 0 when no file has been written; it
\* grows by one with each connect and is changed by nothing else
\* (disconnects, store operations, writes and the passing of time).
C18_CountSinceFirstStart ==
  [][CASE lastOp'.op = "restart" ->
            analytics'.totalConnections =
              IF file.exists THEN file.analytics.totalConnections ELSE 0
       [] lastOp'.op = "connect" ->
            analytics'.totalConnections = analytics.totalConnections + 1
       [] OTHER -> analytics'.totalConnections = analytics.totalConnections
    ]_vars

\* the second connection ever made comes after a restart that loaded a file
\* written when one connection had been counted
C18_Witness ==
  /\ lastOp.op = "connect"
  /\ file.exists
  /\ file.analytics.totalConnections = 1
  /\ analytics.totalConnections = 2
  /\ socketSeq = 2
  /\ connectedUsers = {2}

\* the file holds the quests, markers and categories of the store
InFile ==
  LET written == Stringify([quests |-> quests, markers |-> markers,
                            customCategories |-> customCategories,
                            analytics |-> analytics])
  IN /\ file.exists
     /\ file.quests = written.quests
     /\ file.markers = written.markers
     /\ file.customCategories = written.customCategories

\* C16: when writes succeed and timers fire, a store that differs from the
\* file is eventually in the file, also when mutations less than SaveDelay
\* apart keep the debounced write from happening; every write puts the whole
\* store in the file, as it is at the moment of the write; and the heartbeat
\* is due every HeartbeatInterval, whatever mutations are made: only its own
\* callback moves it, by one interval.
C16_Durability ==
  /\ [](lastOp.op \in {"autoSave", "heartbeat"} =>
          /\ InFile
          /\ file.analytics = analytics
          /\ analytics.lastUpdated = now)
  /\ [][nextHeartbeat' # nextHeartbeat =>
          /\ lastOp'.op = "heartbeat"
          /\ now = nextHeartbeat
          /\ nextHeartbeat' = nextHeartbeat + HeartbeatInterval
       ]_vars
  /\ (~InFile) ~> InFile

\* the heartbeat has written a store whose last mutation, TickStep before,
\* still has its debounced write pending
C16_Witness ==
  /\ lastOp.op = "heartbeat"
  /\ now = HeartbeatInterval
  /\ lastMutation = HeartbeatInterval - TickStep
  /\ \E t \in timers : t.handle = autoSaveTimeout /\ t.due > now
  /\ Len(quests) = 1
  /\ Includes(customCategories, "urgent")
  /\ InFile

\* the collections of the server
Collections ==
  [quests |-> quests, markers |-> markers, customCategories |-> customCategories]

\* A client applies one message to its copy of the collections: initialData
\* replaces it; an added quest or marker is inserted at the front; an updated
\* quest replaces the one of its id; a deleted quest or marker is removed by
\* id and a deleted category by name; a cleared collection is emptied; an
\* added category is appended.
Apply(copy, msg) ==
  LET d == msg.data
  IN CASE msg.event = "initialData" ->
            [quests |-> d.quests, markers |-> d.markers,
             customCategories |-> d.customCategories]
       [] msg.event = "questAdded" -> [copy EXCEPT !.quests = <<d>> \o @]
       [] msg.event = "questUpdated" ->
            [copy EXCEPT !.quests = [i \in 1..Len(@) |-> IF @[i].id = d.id THEN d ELSE @[i]]]
       [] msg.event = "questDeleted" ->
            [copy EXCEPT !.quests = SelectSeq(@, LAMBDA q : q.id # d)]
       [] msg.event = "allQuestsCleared" -> [copy EXCEPT !.quests = <<>>]
       [] msg.event = "markerAdded" -> [copy EXCEPT !.markers = <<d>> \o @]
       [] msg.event = "markerDeleted" ->
            [copy EXCEPT !.markers = SelectSeq(@, LAMBDA m : m.id # d)]
       [] msg.event = "allMarkersCleared" -> [copy EXCEPT !.markers = <<>>]
       [] msg.event = "categoryAdded" -> [copy EXCEPT !.customCategories = Append(@, d)]
       [] msg.event = "categoryDeleted" ->
            [copy EXCEPT !.customCategories = SelectSeq(@, LAMBDA n : n # d)]
       [] OTHER -> copy

\* the copy after the messages among msgs that were sent to socket s, in order
RECURSIVE ApplyAll(_, _, _)
ApplyAll(copy, msgs, s) ==
  IF msgs = <<>> THEN copy
  ELSE ApplyAll(IF s \in Head(msgs).to THEN Apply(copy, Head(msgs)) ELSE copy,
                Tail(msgs), s)

NoCollections == [quests |-> <<>>, markers |-> <<>>, customCategories |-> <<>>]

\* C20: a client that is connected after a handler has run, and whose copy of
\* the collections was equal to the server's before it (a client that has
\* just connected has none), has a copy equal to the server's collections
\* once it has applied, in order, the messages the handler sent to it; so the
\* copy of every connected client equals the server's collections whenever
\* nothing sent to it is in flight.
C20_ReplicasConverge ==
  [][\A s \in connectedUsers' :
       ApplyAll(IF s \in connectedUsers THEN Collections ELSE NoCollections,
                emitted', s) = Collections'
    ]_vars

====
